---------------------------- MODULE Spec2Model ----------------------------
(***************************************************************************)
(* Firmware of the benchtop spectrophotometer (spectrophotometer.ino):     *)
(* the cooperative loop(), the two button interrupt handlers, the blocking *)
(* stepper action, the serial command protocol and the photometric         *)
(* pipeline.                                                               *)
(*                                                                         *)
(* Conventions.                                                            *)
(*  - Time is millis(), in milliseconds.  The program uses a time stamp    *)
(*    only in a difference millis() - stamp, so the model keeps, for each  *)
(*    stamp, that difference: the time elapsed since the stamp was taken.  *)
(*    Every elapsed time stops growing at MaxElapsed, which exceeds every  *)
(*    interval the program compares it with.  The clock advances in steps  *)
(*    of TimeStep where the code lets time pass: in delay() inside         *)
(*    stepMotor, in the timed wait of Serial.readStringUntil, and between  *)
(*    passes of loop() when nothing is pending.                            *)
(*  - int is the 16-bit int of the AVR boards this sketch targets          *)
(*    (external interrupts on pins 2 and 3); unsigned long is 32 bits.     *)
(*  - float values are fixed-point integers in units of 1/AbsScale.        *)
(*  - Serial bytes are their ASCII codes.                                  *)
(***************************************************************************)
EXTENDS Integers, Sequences, FiniteSets, TLC

(***************************************************************************)
(* Bounds of the model.                                                    *)
(***************************************************************************)
TimeStep == 200        \* granularity of the model's clock, ms
MaxElapsed == 1200     \* elapsed times stop growing here, ms
MaxRx == 7             \* bytes the host may have queued in the UART buffer
MaxEvents == 2         \* host messages and button edges in one run
RawMargin == 3         \* ADC samples range this far outside [minPhotoRaw, maxPhotoRaw]
Tolerance == 50        \* numerical tolerance on an absorbance, in units of 1/AbsScale

(***************************************************************************)
(* Program constants.                                                      *)
(***************************************************************************)
HANDSHAKE == 0
VOLTAGE_REQUEST == 1
ON_REQUEST == 2
STREAM == 3
READ_DAQ_DELAY == 4
daqDelayInit == 100
maxPhotoRaw == 75
minPhotoRaw == -1
elevatorRiseTicks == 800
buttonHoldMillis == 800
debounceMillis == 200
delayMs == 1
SENTINEL == 120        \* 'x'
SerialTimeout == 1000  \* Stream's timed read gives up after 1000 ms

\* float constants, in units of 1/AbsScale
AbsScale == 10 * 1000
absorbanceBlankInit == -1040     \* -0.104
emptyNum == 83                   \* photodiodeEmptyNormalized = 83/100
emptyDen == 10 * 10
scalingNum == 96                 \* absorbanceScaling = 96/100
scalingDen == 10 * 10
absorbanceOffset == -100         \* -0.01
epsilonInv == 10 * 1000          \* the clamp 0.0001 = 1/epsilonInv

\* Stepper sequence
steps == << <<1, 0, 0, 0>>, <<1, 1, 0, 0>>, <<0, 1, 0, 0>>, <<0, 1, 1, 0>>,
            <<0, 0, 1, 0>>, <<0, 0, 1, 1>>, <<0, 0, 0, 1>>, <<1, 0, 0, 1>> >>

(***************************************************************************)
(* C arithmetic.                                                           *)
(***************************************************************************)
Abs(x) == IF x < 0 THEN -x ELSE x
Min(a, b) == IF a < b THEN a ELSE b

\* C's integer division truncates toward zero
CDiv(a, b) == IF (a >= 0) = (b > 0) THEN Abs(a) \div Abs(b) ELSE -(Abs(a) \div Abs(b))

\* round-to-nearest of a/b, b > 0: the float result to the model's resolution
RoundDiv(a, b) == IF a >= 0 THEN (2 * a + b) \div (2 * b) ELSE -((2 * (-a) + b) \div (2 * b))

\* the value a 16-bit int holds after a wider value is stored in it
ToInt16(v) == ((v + 32768) % 65536) - 32768

\* unsigned long elapsed >= (unsigned long) d for an int d: a negative d
\* converts to 2^32 - |d|, which no elapsed time of the model reaches
UGeq(elapsed, d) == IF d < 0 THEN FALSE ELSE elapsed >= d

(***************************************************************************)
(* PhotometricEngine.                                                      *)
(***************************************************************************)
\* a map() that forgets the lower end of the input range
mapNoOffset(x, in_min, in_max, out_min, out_max) ==
    CDiv(x * (out_max - out_min), in_max - in_min) + out_min

\* Arduino's map(): long arithmetic, truncating division
map(x, in_min, in_max, out_min, out_max) ==
    CDiv((x - in_min) * (out_max - out_min), in_max - in_min) + out_min

\* measureLight: the mapped value; the normalized reading is mapped / maxPhotoRaw
photodiodeMapped(raw) == map(raw, minPhotoRaw, maxPhotoRaw, 0, maxPhotoRaw)

\* the normalized reading in units of 1/AbsScale
photodiodeNormalized(raw) == CDiv(photodiodeMapped(raw) * AbsScale, maxPhotoRaw)

\* log2 of y / LogQ for LogQ <= y < 2 * LogQ, to `bits` binary digits
LogQ == 2 ^ 14
Log2Frac[y \in Nat, bits \in Nat] ==
    IF bits = 0 THEN 0
    ELSE LET sq == (y * y) \div LogQ
         IN  IF sq >= 2 * LogQ
             THEN 2 ^ (bits - 1) + Log2Frac[sq \div 2, bits - 1]
             ELSE Log2Frac[sq, bits - 1]

\* log2(n / d) in units of 1/LogQ, n > 0, d > 0; operands are halved together
\* where the products would leave 32 bits
Log2Fix[n \in Nat, d \in Nat] ==
    IF n >= 2 * LogQ * LogQ \/ d >= 2 * LogQ * LogQ THEN Log2Fix[n \div 2, d \div 2]
    ELSE IF n >= 2 * d THEN LogQ + Log2Fix[n, 2 * d]
    ELSE IF n < d THEN Log2Fix[2 * n, d] - LogQ
    ELSE IF d >= 4 * LogQ THEN Log2Fix[n \div 2, d \div 2]
    ELSE Log2Frac[(n * LogQ) \div d, 14]

\* log10(n / d) in units of 1/AbsScale: log2 times log10(2) = 0.30103
log10(n, d) ==
    LET l2 == Log2Fix[n, d]
    IN  (l2 * 3010) \div LogQ + (l2 * 3) \div (10 * LogQ)

\* getAbsorbance for the reading mapped / maxPhotoRaw and the blank `blank`
getAbsorbance(mapped, blank) ==
    LET clamped == mapped * epsilonInv < maxPhotoRaw    \* measurement < 0.0001
        num == IF clamped THEN emptyNum * epsilonInv ELSE emptyNum * maxPhotoRaw
        den == IF clamped THEN emptyDen ELSE emptyDen * mapped
    IN  RoundDiv(scalingNum * (log10(num, den) - blank), scalingDen) + absorbanceOffset

\* calibration(): the blank is reset to 0 and then set to the absorbance of one measurement
calibration(raw) == getAbsorbance(photodiodeMapped(raw), 0)


(***************************************************************************)
(* SerialProtocolHandler helpers.                                          *)
(***************************************************************************)
IsDigit(c) == c >= 48 /\ c <= 57
IsSpace(c) == c = 32 \/ (c >= 9 /\ c <= 13)

RECURSIVE SkipSpace(_)
SkipSpace(s) == IF s # <<>> /\ IsSpace(Head(s)) THEN SkipSpace(Tail(s)) ELSE s

\* the digits atol accumulates, kept to the 16 bits that survive the store into an int
RECURSIVE Digits(_, _)
Digits(s, acc) ==
    IF s = <<>> \/ ~IsDigit(Head(s)) THEN acc
    ELSE Digits(Tail(s), (acc * 10 + (Head(s) - 48)) % 65536)

\* daqDelay = daqDelayStr.toInt(): atol of the text, stored in a 16-bit int
toInt(s) ==
    LET t == SkipSpace(s)
    IN  IF t = <<>> THEN 0
        ELSE IF Head(t) = 45 THEN ToInt16(-Digits(Tail(t), 0))
        ELSE IF Head(t) = 43 THEN ToInt16(Digits(Tail(t), 0))
        ELSE ToInt16(Digits(t, 0))

\* position of the first sentinel in s, 0 when there is none
IndexOf(s, c) ==
    LET at == { i \in 1..Len(s) : s[i] = c }
    IN  IF at = {} THEN 0 ELSE CHOOSE i \in at : \A j \in at : i <= j

\* what the host sends: the one-byte commands, an unknown byte, and
\* SetDaqDelay with the payloads "250", "0" and "40000", each closed by 'x'
DelayPayloads == { <<50, 53, 48>>, <<48>>, <<52, 48, 48, 48, 48>> }
UnknownByte == 99
HostMessages ==
    { <<HANDSHAKE>>, <<VOLTAGE_REQUEST>>, <<ON_REQUEST>>, <<STREAM>>, <<UnknownByte>> }
    \cup { <<READ_DAQ_DELAY>> \o p \o <<SENTINEL>> : p \in DelayPayloads }

\* raw samples the ADC delivers while the control loop runs
LoopRawSamples == { minPhotoRaw, 40 }
\* raw samples the ADC delivers to the photometric pipeline on its own
RawSamples == (minPhotoRaw - RawMargin) .. (maxPhotoRaw + RawMargin)

NoLine == <<>>
\* a report line: `since` is its time stamp less that of the report before it
Report(since, a) == << [kind |-> "report", since |-> since, absorbance |-> a] >>
Ack == << [kind |-> "ack", since |-> 0, absorbance |-> 0] >>
NoRaw == minPhotoRaw - RawMargin - 1
\* in place of an elapsed time: the event it counts from has not happened
Never == 0 - 1
\* what Serial.read() returns when nothing is there to read
NoByte == 0 - 1

(***************************************************************************)
(* State.                                                                  *)
(***************************************************************************)
VARIABLES
    pc,                   \* where loop() is: "stream", "serial", "readDelay", "button", "eject", "motor"
    daqMode, daqDelay, daqDelayStr,
    inByte,               \* the command byte loop() read last, NoByte before the first
    daqElapsed,           \* millis() - timeOfLastDAQ
    readElapsed,          \* millis() - the start of the timed read in progress, 0 when none is
    absorbanceBlank,
    elevatorUp, waitingForRelease, ejectRequested,
    pressElapsed,         \* millis() - pressStartTime
    ejectElapsed,         \* millis() - cbEject's static lastInterruptTime
    acceptElapsed,        \* time since cbEject last raised the eject request, or since boot
    recordElapsed,        \* millis() - cbRecord's static lastInterruptTime
    recordAttached,       \* whether cbRecord is attached to the record button's interrupt
    button2,              \* level of the record button's pin: "HIGH" released, "LOW" pressed
    heldFor,              \* how long the accepted press had lasted when the button went up, Never while it is down
    interrupted,          \* the buttons whose handler has run
    stepsToMove, motorI, stepIndex, coils,   \* stepMotor's argument and locals, the lines IN1..IN4
    position,             \* steps the motor has driven, net, from where it stood at boot
    rx,                   \* bytes received and not yet read
    wire,                 \* bytes of the host's message still on their way
    sent,                 \* lines the step just taken wrote to Serial
    refused,              \* lines the step just taken dropped: Serial was not writable
    reportElapsed,        \* time since the last report line was written, Never before the first
    lcd,                  \* what the display shows
    photo,                \* the latest stand-alone photometric operation
    events                \* how many messages the host has sent and edges the buttons have made

vars == << pc, daqMode, daqDelay, daqDelayStr, inByte, daqElapsed, readElapsed,
           absorbanceBlank, elevatorUp, waitingForRelease, ejectRequested,
           pressElapsed, ejectElapsed, recordElapsed, recordAttached, button2,
           heldFor, interrupted, stepsToMove, motorI, stepIndex, coils, position, rx, wire,
           sent, refused, reportElapsed, acceptElapsed, lcd, photo, events >>

\* the elapsed times, which grow together as the clock advances
clocks == << daqElapsed, readElapsed, pressElapsed, ejectElapsed, recordElapsed, reportElapsed,
            acceptElapsed >>
daqVars == << daqMode, daqDelay, daqDelayStr >>
buttonVars == << waitingForRelease, recordAttached, button2, heldFor, interrupted >>
ejectVars == << elevatorUp, ejectRequested >>
motorVars == << stepsToMove, motorI, stepIndex, coils, position >>

Display(text, value) == [text |-> text, value |-> value]

Init ==
    /\ pc = "stream"
    /\ daqMode = ON_REQUEST
    /\ daqDelay = daqDelayInit
    /\ daqDelayStr = <<>>
    /\ inByte = NoByte
    /\ daqElapsed = 0
    /\ readElapsed = 0
    /\ absorbanceBlank = absorbanceBlankInit
    /\ elevatorUp = TRUE
    /\ waitingForRelease = FALSE
    /\ ejectRequested = FALSE
    /\ pressElapsed = 0
    /\ ejectElapsed = 0
    /\ acceptElapsed = 0
    /\ recordElapsed = 0
    /\ recordAttached = TRUE
    /\ button2 = "HIGH"
    /\ heldFor = Never
    /\ interrupted = {}
    /\ stepsToMove = 0
    /\ motorI = 0
    /\ stepIndex = 0
    /\ coils = <<0, 0, 0, 0>>
    /\ position = 0
    /\ rx = <<>>
    /\ wire = <<>>
    /\ sent = NoLine
    /\ refused = NoLine
    /\ reportElapsed = Never
    /\ lcd = Display("Awaiting Input.", 0)
    /\ photo = [op |-> "none", raw |-> NoRaw, mapped |-> 0, normalized |-> 0,
                absorbance |-> 0, calRaw |-> NoRaw]
    /\ events = 0

\* an elapsed time d ms later
Later(elapsed, d) == IF elapsed = Never THEN Never ELSE Min(elapsed + d, MaxElapsed)

\* the clock advances by d ms
Advance(d) ==
    /\ daqElapsed' = Later(daqElapsed, d)
    /\ readElapsed' = IF pc = "readDelay" THEN Later(readElapsed, d) ELSE readElapsed
    /\ pressElapsed' = Later(pressElapsed, d)
    /\ ejectElapsed' = Later(ejectElapsed, d)
    /\ acceptElapsed' = Later(acceptElapsed, d)
    /\ recordElapsed' = Later(recordElapsed, d)
    /\ reportElapsed' = Later(reportElapsed, d)

(***************************************************************************)
(* sample(), sendData().                                                   *)
(***************************************************************************)
\* the absorbance sample() returns for the raw ADC value
sample(raw) == getAbsorbance(photodiodeMapped(raw), absorbanceBlank)

\* what sample() leaves on the display: the absorbance to 3 decimals when standalone
sampleDisplay(raw, standalone) ==
    IF standalone THEN Display("Absorbance: ", RoundDiv(sample(raw), 10))
    ELSE Display("Sending Data...", 0)

\* sendData(): one sample, the time point, the line if the channel is writable;
\* the caller stores the time point in timeOfLastDAQ
sendData(raw, writable) ==
    /\ lcd' = sampleDisplay(raw, FALSE)
    /\ sent' = IF writable THEN Report(reportElapsed, sample(raw)) ELSE NoLine
    /\ refused' = IF writable THEN NoLine ELSE Report(reportElapsed, sample(raw))
    /\ reportElapsed' = IF writable THEN 0 ELSE reportElapsed
    /\ daqElapsed' = 0

(***************************************************************************)
(* loop(), one action per section.                                         *)
(***************************************************************************)
\* a streaming test that does not look at the time
StreamDueAnyTime == daqMode = STREAM

\* a streaming test that does not look at the mode
StreamDueAnyMode == UGeq(daqElapsed, daqDelay)

\* lines 113-114: the test of the streaming step
StreamDue == daqMode = STREAM /\ UGeq(daqElapsed, daqDelay)

\* lines 112-117: the streaming step
LoopStream ==
    /\ pc = "stream"
    /\ pc' = "serial"
    /\ IF StreamDue
       THEN \E raw \in LoopRawSamples, writable \in BOOLEAN : sendData(raw, writable)
       ELSE /\ sent' = NoLine
            /\ refused' = NoLine
            /\ UNCHANGED << lcd, daqElapsed, reportElapsed >>
    /\ UNCHANGED << daqVars, inByte, readElapsed, absorbanceBlank, buttonVars, pressElapsed,
                    recordElapsed, ejectVars, ejectElapsed, acceptElapsed, motorVars,
                    rx, wire, photo,
                    events >>

\* Serial.readStringUntil('x') on the bytes received so far: the text read is
\* appended to daqDelayStr; with the sentinel found the delay is stored, without
\* it the loop stays in the timed read
ReadUntil(str, buf) ==
    LET k == IndexOf(buf, SENTINEL)
    IN  IF k > 0
        THEN /\ daqDelayStr' = str \o SubSeq(buf, 1, k - 1)
             /\ rx' = SubSeq(buf, k + 1, Len(buf))
             /\ daqDelay' = toInt(str \o SubSeq(buf, 1, k - 1))
             /\ pc' = "button"
        ELSE /\ daqDelayStr' = str \o buf
             /\ rx' = <<>>
             /\ pc' = "readDelay"
             /\ UNCHANGED daqDelay

\* lines 126-128
CmdVoltageRequest ==
    /\ \E raw \in LoopRawSamples, writable \in BOOLEAN : sendData(raw, writable)
    /\ rx' = Tail(rx)
    /\ pc' = "button"
    /\ UNCHANGED << daqVars, readElapsed >>

\* lines 129-131
CmdOnRequest ==
    /\ daqMode' = ON_REQUEST
    /\ rx' = Tail(rx)
    /\ pc' = "button"
    /\ sent' = NoLine
    /\ refused' = NoLine
    /\ UNCHANGED << daqDelay, daqDelayStr, daqElapsed, reportElapsed, readElapsed, lcd >>

\* lines 132-134
CmdStream ==
    /\ daqMode' = STREAM
    /\ rx' = Tail(rx)
    /\ pc' = "button"
    /\ sent' = NoLine
    /\ refused' = NoLine
    /\ UNCHANGED << daqDelay, daqDelayStr, daqElapsed, reportElapsed, readElapsed, lcd >>

\* lines 135-142
CmdReadDaqDelay ==
    /\ ReadUntil(<<>>, Tail(rx))
    /\ readElapsed' = 0
    /\ sent' = NoLine
    /\ refused' = NoLine
    /\ UNCHANGED << daqMode, daqElapsed, reportElapsed, lcd >>

\* a Handshake that keeps its byte for a later pass when Serial is not writable
CmdHandshakeRetries ==
    /\ \E writable \in BOOLEAN :
         /\ sent' = IF writable THEN Ack ELSE NoLine
         /\ refused' = IF writable THEN NoLine ELSE Ack
         /\ rx' = IF writable THEN Tail(rx) ELSE rx
    /\ pc' = "button"
    /\ UNCHANGED << daqVars, daqElapsed, reportElapsed, readElapsed, lcd >>

\* lines 143-147
CmdHandshake ==
    /\ \E writable \in BOOLEAN :
         /\ sent' = IF writable THEN Ack ELSE NoLine
         /\ refused' = IF writable THEN NoLine ELSE Ack
    /\ rx' = Tail(rx)
    /\ pc' = "button"
    /\ UNCHANGED << daqVars, daqElapsed, reportElapsed, readElapsed, lcd >>

\* a switch whose unmatched bytes fall into case STREAM
CmdUnknownAsStream == CmdStream

\* line 148: no case of the switch matches
CmdUnknown ==
    /\ rx' = Tail(rx)
    /\ pc' = "button"
    /\ sent' = NoLine
    /\ refused' = NoLine
    /\ UNCHANGED << daqVars, daqElapsed, reportElapsed, readElapsed, lcd >>

\* lines 119-149: one command byte
LoopSerial ==
    /\ pc = "serial"
    /\ IF rx = <<>>
       THEN /\ pc' = "button"
            /\ sent' = NoLine
            /\ refused' = NoLine
            /\ UNCHANGED << daqVars, inByte, daqElapsed, reportElapsed, readElapsed, rx, lcd >>
       ELSE /\ inByte' = Head(rx)
            /\ CASE Head(rx) = VOLTAGE_REQUEST -> CmdVoltageRequest
                 [] Head(rx) = ON_REQUEST -> CmdOnRequest
                 [] Head(rx) = STREAM -> CmdStream
                 [] Head(rx) = READ_DAQ_DELAY -> CmdReadDaqDelay
                 [] Head(rx) = HANDSHAKE -> CmdHandshake
                 [] OTHER -> CmdUnknown
    /\ UNCHANGED << absorbanceBlank, buttonVars, pressElapsed, recordElapsed, ejectVars,
                    ejectElapsed, acceptElapsed, motorVars, wire, photo, events >>

\* line 137, still waiting for the sentinel: more bytes have arrived
ReadDelayMore ==
    /\ pc = "readDelay"
    /\ rx # <<>>
    /\ ReadUntil(daqDelayStr, rx)
    /\ readElapsed' = 0
    /\ sent' = NoLine
    /\ refused' = NoLine
    /\ UNCHANGED << daqMode, inByte, daqElapsed, reportElapsed, absorbanceBlank, buttonVars,
                    pressElapsed, recordElapsed, ejectVars, ejectElapsed, acceptElapsed, motorVars,
                    wire, lcd, photo, events >>

\* a timed read that never gives up
ReadDelayWaitsForever ==
    /\ pc = "readDelay"
    /\ rx = <<>>
    /\ readElapsed >= SerialTimeout
    /\ UNCHANGED vars

\* line 137, the timed read gives up: the text read so far is converted
ReadDelayTimeout ==
    /\ pc = "readDelay"
    /\ rx = <<>>
    /\ readElapsed >= SerialTimeout
    /\ daqDelay' = toInt(daqDelayStr)
    /\ pc' = "button"
    /\ readElapsed' = 0
    /\ sent' = NoLine
    /\ refused' = NoLine
    /\ UNCHANGED << daqMode, daqDelayStr, inByte, daqElapsed, reportElapsed, absorbanceBlank,
                    buttonVars, pressElapsed, recordElapsed, ejectVars, ejectElapsed, acceptElapsed,
                    motorVars, rx, wire, lcd, photo, events >>

\* a button check that calibrates on a short press too
LoopButtonShortCalibrates ==
    /\ pc = "button"
    /\ pc' = "eject"
    /\ sent' = NoLine
    /\ refused' = NoLine
    /\ IF waitingForRelease /\ button2 = "HIGH"
       THEN /\ LET pressDuration == pressElapsed IN
               \E raw \in LoopRawSamples :
                 IF pressDuration >= buttonHoldMillis
                 THEN /\ absorbanceBlank' = calibration(raw)
                      /\ lcd' = Display("Calibration Successful.", 0)
                 ELSE /\ lcd' = sampleDisplay(raw, TRUE)
                      /\ absorbanceBlank' = calibration(raw)
            /\ waitingForRelease' = FALSE
            /\ recordAttached' = TRUE
            /\ heldFor' = Never
       ELSE UNCHANGED << absorbanceBlank, lcd, waitingForRelease, recordAttached, heldFor >>
    /\ UNCHANGED << daqVars, inByte, clocks, button2, interrupted, ejectVars, motorVars,
                    rx, wire, photo, events >>

\* lines 151-163: the record button has been released
LoopButton ==
    /\ pc = "button"
    /\ pc' = "eject"
    /\ sent' = NoLine
    /\ refused' = NoLine
    /\ IF waitingForRelease /\ button2 = "HIGH"
       THEN /\ LET pressDuration == pressElapsed IN
               \E raw \in LoopRawSamples :
                 IF pressDuration >= buttonHoldMillis
                 THEN /\ absorbanceBlank' = calibration(raw)
                      /\ lcd' = Display("Calibration Successful.", 0)
                 ELSE /\ lcd' = sampleDisplay(raw, TRUE)
                      /\ UNCHANGED absorbanceBlank
            /\ waitingForRelease' = FALSE
            /\ recordAttached' = TRUE
            /\ heldFor' = Never
       ELSE UNCHANGED << absorbanceBlank, lcd, waitingForRelease, recordAttached, heldFor >>
    /\ UNCHANGED << daqVars, inByte, clocks, button2, interrupted, ejectVars, motorVars,
                    rx, wire, photo, events >>

\* an eject that steps the same way whatever the elevator state
LoopEjectAlwaysUp ==
    /\ pc = "eject"
    /\ sent' = NoLine
    /\ refused' = NoLine
    /\ IF ejectRequested
       THEN /\ stepsToMove' = elevatorRiseTicks
            /\ motorI' = 0
            /\ stepIndex' = 0
            /\ pc' = "motor"
            /\ UNCHANGED << coils, position >>
       ELSE /\ pc' = "stream"
            /\ UNCHANGED motorVars
    /\ UNCHANGED << daqVars, inByte, clocks, absorbanceBlank, buttonVars, ejectVars,
                    rx, wire, lcd, photo, events >>

\* lines 165-168, 174: an eject request starts stepMotor
LoopEject ==
    /\ pc = "eject"
    /\ sent' = NoLine
    /\ refused' = NoLine
    /\ IF ejectRequested
       THEN /\ stepsToMove' = IF elevatorUp THEN elevatorRiseTicks ELSE -elevatorRiseTicks
            /\ motorI' = 0
            /\ stepIndex' = 0
            /\ pc' = "motor"
            /\ UNCHANGED << coils, position >>
       ELSE /\ pc' = "stream"
            /\ UNCHANGED motorVars
    /\ UNCHANGED << daqVars, inByte, clocks, absorbanceBlank, buttonVars, ejectVars,
                    rx, wire, lcd, photo, events >>

\* an iteration that moves two phases on
NextPhaseDouble(index, direction) == (index + 2 * direction + 8) % 8

\* lines 210-211: one iteration's new phase index
NextPhase(index, direction) == (index + direction + 8) % 8

\* the phase index after k more iterations in the direction of `count`;
\* eight iterations lead back to the same index, so k % 8 of them are replayed
RECURSIVE StepPhase(_, _, _)
StepPhase(index, count, k) ==
    IF k % 8 = 0 THEN index
    ELSE NextPhase(StepPhase(index, count, (k % 8) - 1), IF count > 0 THEN 1 ELSE -1)

\* a stepMotor that reads a waiting serial byte between iterations
StepMotorPolling ==
    /\ pc = "motor"
    /\ motorI < Abs(stepsToMove)
    /\ LET k == Min(TimeStep \div delayMs, Abs(stepsToMove) - motorI) IN
         /\ Advance(k * delayMs)
         /\ motorI' = motorI + k
         /\ stepIndex' = StepPhase(stepIndex, stepsToMove, k)
         /\ coils' = steps[StepPhase(stepIndex, stepsToMove, k) + 1]
         /\ position' = position + (IF stepsToMove > 0 THEN k ELSE -k)
    /\ rx' = IF rx = <<>> THEN rx ELSE Tail(rx)
    /\ sent' = NoLine
    /\ refused' = NoLine
    /\ UNCHANGED << pc, daqVars, inByte, absorbanceBlank, buttonVars, ejectVars,
                    stepsToMove, wire, lcd, photo, events >>

\* lines 209-219: the next iterations of stepMotor's loop, TimeStep ms of them
\* (or those that are left), each driving IN1..IN4 and pausing delayMs
StepMotor ==
    /\ pc = "motor"
    /\ motorI < Abs(stepsToMove)
    /\ LET k == Min(TimeStep \div delayMs, Abs(stepsToMove) - motorI) IN
         /\ Advance(k * delayMs)
         /\ motorI' = motorI + k
         /\ stepIndex' = StepPhase(stepIndex, stepsToMove, k)
         /\ coils' = steps[StepPhase(stepIndex, stepsToMove, k) + 1]
         /\ position' = position + (IF stepsToMove > 0 THEN k ELSE -k)
    /\ sent' = NoLine
    /\ refused' = NoLine
    /\ UNCHANGED << pc, daqVars, inByte, absorbanceBlank, buttonVars, ejectVars,
                    stepsToMove, rx, wire, lcd, photo, events >>

\* an end of the eject that leaves the request standing
EjectEndKeepsRequest ==
    /\ pc = "motor"
    /\ motorI = Abs(stepsToMove)
    /\ lcd' = IF elevatorUp THEN Display("Ejecting...", 0) ELSE Display("Sample inserted.", 0)
    /\ elevatorUp' = ~elevatorUp
    /\ pc' = "stream"
    /\ sent' = NoLine
    /\ refused' = NoLine
    /\ UNCHANGED << daqVars, inByte, clocks, absorbanceBlank, buttonVars, ejectRequested,
                    motorVars, rx, wire, photo, events >>

\* lines 169-181: stepMotor has returned
EjectEnd ==
    /\ pc = "motor"
    /\ motorI = Abs(stepsToMove)
    /\ lcd' = IF elevatorUp THEN Display("Ejecting...", 0) ELSE Display("Sample inserted.", 0)
    /\ elevatorUp' = ~elevatorUp
    /\ ejectRequested' = FALSE
    /\ pc' = "stream"
    /\ sent' = NoLine
    /\ refused' = NoLine
    /\ UNCHANGED << daqVars, inByte, clocks, absorbanceBlank, buttonVars, motorVars,
                    rx, wire, photo, events >>

(***************************************************************************)
(* Interrupt handlers, run on a falling edge of their button.              *)
(***************************************************************************)
\* a debounce test that lets an interrupt through at exactly 200 ms
DebouncedAtLeast(elapsed) == elapsed >= debounceMillis

\* the debounce test of both handlers: interruptTime - lastInterruptTime > 200
Debounced(elapsed) == elapsed > debounceMillis

cbEject ==
    /\ ejectRequested' = IF Debounced(ejectElapsed) THEN TRUE ELSE ejectRequested
    /\ ejectElapsed' = 0

\* a record handler that leaves itself attached
cbRecordStaysAttached ==
    /\ IF Debounced(recordElapsed)
       THEN /\ pressElapsed' = 0
            /\ waitingForRelease' = TRUE
       ELSE UNCHANGED << pressElapsed, waitingForRelease >>
    /\ recordAttached' = recordAttached
    /\ recordElapsed' = 0

cbRecord ==
    /\ IF Debounced(recordElapsed)
       THEN /\ recordAttached' = FALSE
            /\ pressElapsed' = 0
            /\ waitingForRelease' = TRUE
       ELSE UNCHANGED << recordAttached, pressElapsed, waitingForRelease >>
    /\ recordElapsed' = 0

(***************************************************************************)
(* Environment: the buttons, the host, the clock.                          *)
(*                                                                         *)
(* A pass of loop() that does not block takes no time on the model's       *)
(* clock, so an edge or a byte that arrives inside such a pass is the same *)
(* as one that arrives just before or just after it.  The environment      *)
(* therefore acts between passes and wherever loop() blocks: in stepMotor  *)
(* and in the timed read.                                                  *)
(***************************************************************************)
Preemptible == pc \in {"stream", "motor", "readDelay"}

\* an eject handler that moves the elevator state itself
EjectEdgeMovesElevator ==
    /\ Preemptible
    /\ events < MaxEvents
    /\ events' = events + 1
    /\ cbEject
    /\ elevatorUp' = ~elevatorUp
    /\ acceptElapsed' = IF Debounced(ejectElapsed) THEN 0 ELSE acceptElapsed
    /\ interrupted' = interrupted \cup {"eject"}
    /\ sent' = NoLine
    /\ refused' = NoLine
    /\ UNCHANGED << pc, daqVars, inByte, daqElapsed, readElapsed, reportElapsed,
                    absorbanceBlank, waitingForRelease, recordAttached, button2,
                    heldFor, pressElapsed, recordElapsed, motorVars, rx, wire, lcd, photo >>

\* a falling edge on the eject button
EjectEdge ==
    /\ Preemptible
    /\ events < MaxEvents
    /\ events' = events + 1
    /\ cbEject
    /\ acceptElapsed' = IF Debounced(ejectElapsed) THEN 0 ELSE acceptElapsed
    /\ interrupted' = interrupted \cup {"eject"}
    /\ sent' = NoLine
    /\ refused' = NoLine
    /\ UNCHANGED << pc, daqVars, inByte, daqElapsed, readElapsed, reportElapsed,
                    absorbanceBlank, elevatorUp, waitingForRelease, recordAttached, button2,
                    heldFor, pressElapsed, recordElapsed, motorVars, rx, wire, lcd, photo >>

\* the record button goes down: a falling edge, seen by cbRecord while attached
RecordPress ==
    /\ Preemptible
    /\ button2 = "HIGH"
    /\ button2' = "LOW"
    /\ events < MaxEvents
    /\ events' = events + 1
    /\ IF recordAttached
       THEN /\ cbRecord
            /\ interrupted' = interrupted \cup {"record"}
       ELSE UNCHANGED << recordAttached, pressElapsed, waitingForRelease, recordElapsed,
                         interrupted >>
    /\ sent' = NoLine
    /\ refused' = NoLine
    /\ UNCHANGED << pc, daqVars, inByte, daqElapsed, readElapsed, reportElapsed,
                    absorbanceBlank, heldFor, ejectVars, ejectElapsed, acceptElapsed,
                    motorVars, rx, wire,
                    lcd, photo >>

\* the record button goes up
RecordRelease ==
    /\ Preemptible
    /\ button2 = "LOW"
    /\ button2' = "HIGH"
    /\ heldFor' = IF waitingForRelease /\ heldFor = Never THEN pressElapsed ELSE heldFor
    /\ sent' = NoLine
    /\ refused' = NoLine
    /\ UNCHANGED << pc, daqVars, inByte, clocks, absorbanceBlank, ejectVars,
                    waitingForRelease, recordAttached, interrupted, motorVars, rx, wire,
                    lcd, photo, events >>

\* the host sends a message: it arrives whole, or the command byte first and
\* the rest later
HostSend ==
    /\ Preemptible
    /\ wire = <<>>
    /\ events < MaxEvents
    /\ events' = events + 1
    /\ \E msg \in HostMessages :
         /\ Len(rx) + Len(msg) <= MaxRx
         /\ \E k \in {1, Len(msg)} :
              /\ rx' = rx \o SubSeq(msg, 1, k)
              /\ wire' = SubSeq(msg, k + 1, Len(msg))
    /\ sent' = NoLine
    /\ refused' = NoLine
    /\ UNCHANGED << pc, daqVars, inByte, clocks, absorbanceBlank, buttonVars, ejectVars,
                    motorVars, lcd, photo >>

\* the rest of the host's message arrives
WireArrives ==
    /\ Preemptible
    /\ wire # <<>>
    /\ rx' = rx \o wire
    /\ wire' = <<>>
    /\ sent' = NoLine
    /\ refused' = NoLine
    /\ UNCHANGED << pc, daqVars, inByte, clocks, absorbanceBlank, buttonVars, ejectVars,
                    motorVars, lcd, photo, events >>

\* whether a pass of loop() has something to serve
Pending ==
    \/ rx # <<>>
    \/ waitingForRelease /\ button2 = "HIGH"
    \/ ejectRequested
    \/ StreamDue /\ daqElapsed > 0

\* The clock advances while loop() idles between passes or waits in the timed
\* read; a pass that has something to serve takes far less than TimeStep.
Tick ==
    /\ \/ pc = "stream" /\ ~Pending
       \/ pc = "readDelay" /\ rx = <<>> /\ readElapsed < SerialTimeout
    /\ Advance(TimeStep)
    /\ sent' = NoLine
    /\ refused' = NoLine
    /\ UNCHANGED << pc, daqVars, inByte, absorbanceBlank, buttonVars, ejectVars, motorVars,
                    rx, wire, lcd, photo, events >>

Next ==
    \/ LoopStream
    \/ LoopSerial
    \/ ReadDelayMore
    \/ ReadDelayTimeout
    \/ LoopButton
    \/ LoopEject
    \/ StepMotor
    \/ EjectEnd
    \/ EjectEdge
    \/ RecordPress
    \/ RecordRelease
    \/ HostSend
    \/ WireArrives
    \/ Tick

Spec == Init /\ [][Next]_vars

\* the steps of the program itself: loop() and the functions it calls
LoopStep ==
    \/ LoopStream
    \/ LoopSerial
    \/ ReadDelayMore
    \/ ReadDelayTimeout
    \/ LoopButton
    \/ LoopEject
    \/ StepMotor
    \/ EjectEnd

\* the processor keeps executing loop() and millis() keeps counting; the
\* buttons and the host are under no obligation
FairSpec == Spec /\ WF_vars(LoopStep) /\ WF_vars(Tick)


(***************************************************************************)
(* The photometric pipeline on its own: measureLight, sample(true) and     *)
(* calibration() applied to any raw sample, in any order.                  *)
(***************************************************************************)
controlVars == << pc, daqMode, daqDelay, daqDelayStr, inByte, daqElapsed, readElapsed,
                  elevatorUp, waitingForRelease, ejectRequested, pressElapsed,
                  ejectElapsed, recordElapsed, recordAttached, button2, heldFor,
                  interrupted, stepsToMove, motorI, stepIndex, coils, position, rx, wire,
                  sent, refused, reportElapsed, acceptElapsed, events >>

\* lines 186-202 with 256-262: sample(true) on the raw value the ADC delivers
PhotoSample ==
    /\ \E raw \in RawSamples :
         /\ photo' = [op |-> "sample", raw |-> raw,
                      mapped |-> photodiodeMapped(raw),
                      normalized |-> photodiodeNormalized(raw),
                      absorbance |-> sample(raw),
                      calRaw |-> photo.calRaw]
         /\ lcd' = sampleDisplay(raw, TRUE)
    /\ UNCHANGED << absorbanceBlank, controlVars >>

\* lines 246-254: calibration() on the raw value the ADC delivers
PhotoCalibrate ==
    /\ \E raw \in RawSamples :
         /\ absorbanceBlank' = calibration(raw)
         /\ photo' = [op |-> "calibrate", raw |-> raw,
                      mapped |-> photodiodeMapped(raw),
                      normalized |-> photodiodeNormalized(raw),
                      absorbance |-> calibration(raw),
                      calRaw |-> raw]
    /\ lcd' = Display("Calibration Successful.", 0)
    /\ UNCHANGED controlVars

PhotoNext ==
    \/ PhotoSample
    \/ PhotoCalibrate

SpecPhoto == Init /\ [][PhotoNext]_vars

(***************************************************************************)
(* The stepper on its own, one iteration of stepMotor's loop at a time:    *)
(* the eject button is pressed between passes of loop(), and nothing else  *)
(* happens.                                                                *)
(***************************************************************************)
\* lines 209-219: one iteration of stepMotor's loop
StepIteration ==
    /\ pc = "motor"
    /\ motorI < Abs(stepsToMove)
    /\ Advance(delayMs)
    /\ motorI' = motorI + 1
    /\ stepIndex' = NextPhase(stepIndex, IF stepsToMove > 0 THEN 1 ELSE -1)
    /\ coils' = steps[NextPhase(stepIndex, IF stepsToMove > 0 THEN 1 ELSE -1) + 1]
    /\ position' = position + (IF stepsToMove > 0 THEN 1 ELSE -1)
    /\ sent' = NoLine
    /\ refused' = NoLine
    /\ UNCHANGED << pc, daqVars, inByte, absorbanceBlank, buttonVars, ejectVars,
                    stepsToMove, rx, wire, lcd, photo, events >>

\* a falling edge on the eject button while loop() is between passes
EjectEdgeIdle == pc = "stream" /\ EjectEdge

MotorNext ==
    \/ LoopStream
    \/ LoopSerial
    \/ LoopButton
    \/ LoopEject
    \/ StepIteration
    \/ EjectEnd
    \/ EjectEdgeIdle
    \/ Tick

SpecMotor == Init /\ [][MotorNext]_vars

(***************************************************************************)
(* Properties.                                                             *)
(***************************************************************************)
\* steps of the control loop and of the handlers, recognised by what they change
MotorReturns == pc = "motor" /\ pc' # "motor"
MotorStarts == pc # "motor" /\ pc' = "motor"
RecordInterrupt == button2 = "HIGH" /\ button2' = "LOW" /\ recordAttached
EjectInterrupt == events' = events + 1 /\ button2' = button2 /\ rx' = rx
Dispatch == pc = "button" /\ waitingForRelease /\ button2 = "HIGH"
CommandBytes == {HANDSHAKE, VOLTAGE_REQUEST, ON_REQUEST, STREAM, READ_DAQ_DELAY}
Handles(byte) == pc = "serial" /\ rx # <<>> /\ Head(rx) = byte
StreamStep == pc = "stream" /\ pc' = "serial"
IsPrefix(a, b) == Len(a) <= Len(b) /\ SubSeq(b, 1, Len(a)) = a
Clamp(x, lo, hi) == IF x < lo THEN lo ELSE IF x > hi THEN hi ELSE x

\* the value of a string of decimal digits
RECURSIVE DecimalValue(_)
DecimalValue(s) ==
    IF s = <<>> THEN 0 ELSE 10 * DecimalValue(SubSeq(s, 1, Len(s) - 1)) + (s[Len(s)] - 48)

\* C1: the elevator state changes in one step only, the return of stepMotor,
\* which negates it and leaves no eject request standing, whatever interrupts
\* arrived while the motor ran; and the motor starts on a request only.
C1_EjectTogglesOnce ==
    [][ /\ MotorReturns => (elevatorUp' = ~elevatorUp /\ ~ejectRequested')
        /\ ~MotorReturns => elevatorUp' = elevatorUp
        /\ MotorStarts => ejectRequested ]_vars

\* an eject has just completed, lowering the elevator, and an eject interrupt
\* arrived while its motor ran
C1_EjectedDespiteInterrupt ==
    /\ pc = "stream"
    /\ lcd.text = "Ejecting..."
    /\ ~elevatorUp
    /\ ~ejectRequested
    /\ ejectElapsed < elevatorRiseTicks * delayMs

\* C2: when the loop dispatches an accepted record press, a hold shorter than
\* buttonHoldMillis runs sample (the absorbance is shown, the blank is kept) and
\* a hold of buttonHoldMillis or longer runs calibration.
C2_HoldDecidesAction ==
    [][ Dispatch =>
          /\ heldFor < buttonHoldMillis =>
               (lcd'.text = "Absorbance: " /\ absorbanceBlank' = absorbanceBlank)
          /\ heldFor >= buttonHoldMillis => lcd'.text = "Calibration Successful." ]_vars

\* C3: an interrupt of either button registers (the record press is accepted,
\* the eject request is raised) exactly when more than debounceMillis have
\* passed since the previous interrupt of the same button, or since boot.
C3_RegistersAfterDebounce ==
    [][ /\ RecordInterrupt => (waitingForRelease' <=> recordElapsed > debounceMillis)
        /\ (EjectInterrupt /\ ~ejectRequested) =>
             (ejectRequested' <=> ejectElapsed > debounceMillis) ]_vars

\* C3 as stated: of two interrupts of one button, the second registers exactly
\* when it comes debounceMillis or more after the first.
C3_RegistersAtDebounce ==
    [][ /\ (RecordInterrupt /\ "record" \in interrupted) =>
             (waitingForRelease' <=> recordElapsed >= debounceMillis)
        /\ (EjectInterrupt /\ ~ejectRequested /\ "eject" \in interrupted) =>
             (ejectRequested' <=> ejectElapsed >= debounceMillis) ]_vars

\* the record button has gone down exactly debounceMillis after a press that
\* was accepted and dispatched, and this press is not accepted
C3_SecondPressDropped ==
    /\ button2 = "LOW"
    /\ recordAttached
    /\ ~waitingForRelease
    /\ recordElapsed = 0
    /\ pressElapsed = debounceMillis
    /\ lcd.text \in {"Absorbance: ", "Calibration Successful."}

\* C4: handling a command byte that is none of 0..4 changes neither daqMode nor
\* daqDelay nor the blank, writes nothing, and reads that one byte only.
C4_UnknownByteIgnored ==
    [][ (pc = "serial" /\ rx # <<>> /\ Head(rx) \notin CommandBytes) =>
          /\ daqMode' = daqMode
          /\ daqDelay' = daqDelay
          /\ absorbanceBlank' = absorbanceBlank
          /\ sent' = NoLine
          /\ rx' = Tail(rx) ]_vars

\* an unknown byte has just been handled while the device was streaming, and
\* the bytes behind it are still unread
C4_UnknownByteHandled ==
    /\ pc = "button"
    /\ inByte \notin CommandBytes \cup {NoByte}
    /\ rx # <<>>
    /\ sent = NoLine

\* C5: a report line written by the streaming step is written in Streaming mode
\* and at least daqDelay after the report line before it.
C5_StreamSpacing ==
    [][ (pc = "stream" /\ sent' # NoLine) =>
          /\ daqMode = STREAM
          /\ sent'[1].kind = "report"
          /\ sent'[1].since = Never \/ sent'[1].since >= daqDelay ]_vars

\* the streaming step has just written a report, not the first one, with the
\* delay set to 250 ms
C5_StreamedAtDelay ==
    /\ pc = "serial"
    /\ sent # NoLine
    /\ daqMode = STREAM
    /\ daqDelay = 250
    /\ sent[1].since # Never

\* C6: when SetDaqDelay has been handled, daqDelay is the value of the digits read.
C6_StoresDecimalValue ==
    (pc = "button" /\ inByte = READ_DAQ_DELAY) => daqDelay = DecimalValue(daqDelayStr)

\* C7: handling OnRequest leaves the mode OnRequest; the mode leaves OnRequest
\* only when Stream is handled; in OnRequest mode the streaming step samples
\* nothing and writes nothing, and a report line is written only in answer to
\* VoltageRequest, one line for one command.
C7_NoStreamOnRequest ==
    [][ /\ Handles(ON_REQUEST) => daqMode' = ON_REQUEST
        /\ (daqMode = ON_REQUEST /\ daqMode' # ON_REQUEST) => Handles(STREAM)
        /\ (daqMode = ON_REQUEST /\ StreamStep) =>
             (sent' = NoLine /\ lcd' = lcd /\ daqElapsed' = daqElapsed)
        /\ (daqMode = ON_REQUEST /\ sent' # NoLine /\ sent'[1].kind = "report") =>
             (Handles(VOLTAGE_REQUEST) /\ Len(sent') = 1) ]_vars

\* OnRequest is the last command handled, reports were written before, and the
\* streaming step has just run with the delay elapsed and written nothing
C7_QuietAfterOnRequest ==
    /\ pc = "serial"
    /\ inByte = ON_REQUEST
    /\ daqMode = ON_REQUEST
    /\ reportElapsed # Never
    /\ UGeq(daqElapsed, daqDelay)
    /\ sent = NoLine

\* C8: while stepMotor runs no received byte is read, nothing is written, no
\* record press is dispatched, and daqMode, daqDelay and the blank stay; a
\* button edge or a host byte arriving then moves neither the loop nor the
\* motor, and changes neither the display nor the elevator state.
C8_MotorBlocksLoop ==
    [][ pc = "motor" =>
          /\ IsPrefix(rx, rx')
          /\ sent' = NoLine
          /\ inByte' = inByte
          /\ waitingForRelease => waitingForRelease'
          /\ recordAttached' => recordAttached
          /\ daqMode' = daqMode /\ daqDelay' = daqDelay /\ daqDelayStr' = daqDelayStr
          /\ absorbanceBlank' = absorbanceBlank
          /\ events' # events =>
               /\ pc' = "motor"
               /\ motorI' = motorI /\ stepIndex' = stepIndex /\ coils' = coils
               /\ lcd' = lcd
               /\ elevatorUp' = elevatorUp
               /\ daqElapsed' = daqElapsed ]_vars

\* stepMotor has run to its last iteration while a record press, accepted and
\* released after the motor started, waits to be dispatched
C8_PressWaitsForMotor ==
    /\ pc = "motor"
    /\ motorI = Abs(stepsToMove)
    /\ waitingForRelease
    /\ button2 = "HIGH"
    /\ pressElapsed < elevatorRiseTicks * delayMs

\* C9: the absorbance of a sample taken at the raw value of the latest
\* calibration is the offset, within Tolerance.
C9_RecalibratedIsOffset ==
    (photo.op = "sample" /\ photo.calRaw = photo.raw) =>
        Abs(photo.absorbance - absorbanceOffset) <= Tolerance

\* C10: for a raw sample within [minPhotoRaw, maxPhotoRaw] the mapped value is
\* the sample clamped to [0, maxPhotoRaw], and the normalized reading is that
\* over maxPhotoRaw, within [0, 1].
C10_MappedIsClamped ==
    (photo.op # "none" /\ photo.raw >= minPhotoRaw /\ photo.raw <= maxPhotoRaw) =>
        LET c == Clamp(photo.raw, 0, maxPhotoRaw) IN
        /\ photo.mapped = c
        /\ photo.normalized * maxPhotoRaw <= c * AbsScale
        /\ c * AbsScale < (photo.normalized + 1) * maxPhotoRaw
        /\ photo.normalized >= 0
        /\ photo.normalized <= AbsScale

\* the lowest raw sample of the range has been measured, and mapped to 0
C10_LowestSampleMapped ==
    /\ photo.op = "sample"
    /\ photo.raw = minPhotoRaw
    /\ photo.mapped = 0


\* C11: handling a Handshake reads its one byte and either writes the one
\* acknowledgement line or, Serial not being writable, drops it; an
\* acknowledgement is written in no other step, so a dropped one is never sent
\* later; daqMode, daqDelay, the blank and the elevator state stay.
C11_HandshakeOnceOrDropped ==
    [][ /\ Handles(HANDSHAKE) =>
             /\ \/ sent' = Ack /\ refused' = NoLine
                \/ sent' = NoLine /\ refused' = Ack
             /\ rx' = Tail(rx)
             /\ daqMode' = daqMode /\ daqDelay' = daqDelay
             /\ absorbanceBlank' = absorbanceBlank
             /\ elevatorUp' = elevatorUp
        /\ (sent' # NoLine /\ sent'[1].kind = "ack") => Handles(HANDSHAKE) ]_vars

\* a Handshake has just been handled with Serial not writable: nothing is
\* written, the acknowledgement is dropped and the byte is gone
C11_HandshakeDropped ==
    /\ pc = "button"
    /\ inByte = HANDSHAKE
    /\ sent = NoLine
    /\ refused = Ack
    /\ rx = <<>>

\* a step in which a button's interrupt handler runs
ButtonInterrupt == EjectInterrupt \/ RecordInterrupt

\* C12: a step that changes daqMode, daqDelay, the blank or the elevator state is
\* a step of loop(); a step of an interrupt handler changes nothing but the
\* handler's own time stamp and flag and, for the record button, the press time
\* stamp and the handler's attachment.
C12_HandlersKeepLoopState ==
    [][ /\ (daqMode' # daqMode \/ daqDelay' # daqDelay \/ absorbanceBlank' # absorbanceBlank
              \/ elevatorUp' # elevatorUp) => (pc' # pc /\ events' = events)
        /\ ButtonInterrupt =>
             /\ pc' = pc /\ inByte' = inByte /\ lcd' = lcd /\ photo' = photo
             /\ daqMode' = daqMode /\ daqDelay' = daqDelay /\ daqDelayStr' = daqDelayStr
             /\ absorbanceBlank' = absorbanceBlank /\ elevatorUp' = elevatorUp
             /\ daqElapsed' = daqElapsed /\ readElapsed' = readElapsed
             /\ stepsToMove' = stepsToMove /\ motorI' = motorI
             /\ stepIndex' = stepIndex /\ coils' = coils
             /\ rx' = rx /\ wire' = wire /\ sent' = NoLine
        /\ EjectInterrupt =>
             /\ waitingForRelease' = waitingForRelease /\ recordAttached' = recordAttached
             /\ pressElapsed' = pressElapsed /\ recordElapsed' = recordElapsed
        /\ RecordInterrupt =>
             /\ ejectRequested' = ejectRequested /\ ejectElapsed' = ejectElapsed ]_vars

\* both handlers have run and each has raised its flag, with the state of the
\* loop as it was at boot
C12_BothHandlersRan ==
    /\ interrupted = {"eject", "record"}
    /\ ejectRequested
    /\ waitingForRelease
    /\ daqMode = ON_REQUEST
    /\ daqDelay = daqDelayInit
    /\ absorbanceBlank = absorbanceBlankInit
    /\ elevatorUp

\* C13: an eject interrupt raises the eject request exactly when more than
\* debounceMillis have passed since the last eject interrupt that raised it
\* (or since boot).
C13_WindowFromLastAccepted ==
    [][ (EjectInterrupt /\ ~ejectRequested) =>
          (ejectRequested' <=> acceptElapsed > debounceMillis) ]_vars


\* C14: the record handler is attached exactly when no press is waiting
\* (Armed); while a press waits (AwaitingRelease) the handler does not run and
\* the press time stamp stays until loop() dispatches the press; a press starts
\* waiting only by a debounced interrupt in Armed, and stops waiting only by its
\* dispatch, which runs sample or calibration and re-attaches the handler.
C14_RecordTwoStates ==
    [][ /\ recordAttached <=> ~waitingForRelease
        /\ recordAttached' <=> ~waitingForRelease'
        /\ (waitingForRelease /\ ~Dispatch) =>
             /\ waitingForRelease'
             /\ pressElapsed' >= pressElapsed
             /\ recordElapsed' >= recordElapsed
        /\ Dispatch =>
             /\ ~waitingForRelease'
             /\ lcd'.text \in {"Absorbance: ", "Calibration Successful."}
        /\ (~waitingForRelease /\ waitingForRelease') =>
             (RecordInterrupt /\ recordElapsed > debounceMillis /\ pressElapsed' = 0)
        /\ (waitingForRelease /\ ~waitingForRelease') => Dispatch ]_vars

\* an accepted press has been released and the button has gone down again
\* before loop() dispatched it: the handler is detached and the press still waits
C14_SecondPressWhileWaiting ==
    /\ waitingForRelease
    /\ ~recordAttached
    /\ button2 = "LOW"
    /\ heldFor # Never


\* C15: a raw sample below minPhotoRaw is mapped to 0 and normalized to 0, and
\* the normalized reading of any raw sample lies within [0, 1].
C15_NormalizedInUnitRange ==
    photo.op # "none" =>
        /\ photo.raw < minPhotoRaw => (photo.mapped = 0 /\ photo.normalized = 0)
        /\ photo.normalized >= 0
        /\ photo.normalized <= AbsScale

\* C16: stepMotor is called with +elevatorRiseTicks when the elevator state is
\* up and with -elevatorRiseTicks when it is not, so between eject actions the
\* net displacement is 0 when the state is up, as at boot, and elevatorRiseTicks
\* otherwise, and it never leaves [0, elevatorRiseTicks].
C16_NetDisplacement ==
    /\ position >= 0
    /\ position <= elevatorRiseTicks
    /\ pc # "motor" => position = (IF elevatorUp THEN 0 ELSE elevatorRiseTicks)
    /\ pc = "motor" => stepsToMove = (IF elevatorUp THEN elevatorRiseTicks ELSE -elevatorRiseTicks)

\* two eject actions have completed: the sample is back in and the motor is
\* back where it stood at boot
C16_BackAtStart ==
    /\ pc = "stream"
    /\ lcd.text = "Sample inserted."
    /\ elevatorUp
    /\ position = 0

\* C17: the blank changes only in the step in which loop() dispatches a record
\* press it measures as buttonHoldMillis or longer, which runs calibration; no
\* other step of the loop, the handlers or the host changes it.
C17_BlankOnlyByCalibration ==
    [][ absorbanceBlank' # absorbanceBlank =>
          /\ Dispatch
          /\ pressElapsed >= buttonHoldMillis
          /\ lcd'.text = "Calibration Successful." ]_vars

\* a long press has just been dispatched and the blank is no longer the
\* startup constant
C17_Recalibrated ==
    /\ pc = "eject"
    /\ lcd.text = "Calibration Successful."
    /\ absorbanceBlank # absorbanceBlankInit

\* C18: daqDelay is never negative.
C18_DelayNonNegative == daqDelay >= 0


\* the phase the lines IN1..IN4 drive
PhaseOf(c) == CHOOSE i \in 0..7 : steps[i + 1] = c
Undriven == <<0, 0, 0, 0>>
StepDirection == IF stepsToMove > 0 THEN 1 ELSE -1
Iteration == pc = "motor" /\ pc' = "motor" /\ motorI' # motorI

\* C20: the phase index stays in 0..7; every iteration of stepMotor drives the
\* phase one on from the phase driven before it, in the direction of the sign
\* of its argument, the first iteration of a call that follows an earlier call
\* included; and stepMotor returns after as many iterations as its argument's
\* absolute value.
C20_PhasesAdjacent ==
    [][ /\ stepIndex \in 0..7
        /\ stepIndex' \in 0..7
        /\ Iteration =>
             /\ motorI' = motorI + 1
             /\ motorI' <= Abs(stepsToMove)
             /\ stepIndex' = (stepIndex + StepDirection + 8) % 8
             /\ coils' = steps[stepIndex' + 1]
             /\ coils # Undriven => PhaseOf(coils') = (PhaseOf(coils) + StepDirection + 8) % 8
        /\ MotorReturns =>
             /\ motorI = Abs(stepsToMove)
             /\ Abs(stepsToMove) = elevatorRiseTicks ]_vars

\* the first iteration of the second call, which steps back: from phase 0,
\* where the first call ended, to phase 7
C20_FirstStepBack ==
    /\ pc = "motor"
    /\ stepsToMove < 0
    /\ motorI = 1
    /\ stepIndex = 7
    /\ coils = steps[8]


\* C19: while loop() keeps iterating, a set eject request is eventually cleared
\* by a completed eject, a record press waiting for its release is dispatched
\* and triggering re-enabled once the line is released (unless the button is
\* pressed again first), and loop() comes back to its first statement again
\* and again.
C19_PendingServed ==
    /\ ejectRequested ~> (pc = "stream" /\ ~ejectRequested)
    /\ (waitingForRelease /\ button2 = "HIGH")
          ~> ((~waitingForRelease /\ recordAttached) \/ button2 = "LOW")
    /\ []<>(pc = "stream")

\* an eject request pending while loop() is blocked in the timed read
C19_EjectPendingInTimedRead ==
    /\ ejectRequested
    /\ pc = "readDelay"
    /\ rx = <<>>

=============================================================================
